---- MODULE Spec2Model ----
(***************************************************************************)
(* Model of src/App.py: the confirmation-bundle heuristic                  *)
(* (confirmation_bundle) over a table of bars, and the page script that    *)
(* fetches, computes indicators, evaluates and renders each asset.         *)
(*                                                                         *)
(* Floats are modelled by integers.  A cell of the table is a tagged       *)
(* value: F(x) is the float x, NaN is pandas' missing float.  In a bundle  *)
(* an echoed indicator is either a float or Python's None.                 *)
(***************************************************************************)
EXTENDS Integers, Sequences, FiniteSets, TLC

VARIABLES
    series,       \* engine harness: the DataFrame handed to confirmation_bundle
    result,       \* engine harness: what the last call returned
    previous,     \* engine harness: what the call before the last returned
    calls,        \* engine harness: number of calls made on this series
    i,            \* page script: position in ASSETS of the asset in hand
    pc,           \* page script: the statement about to run
    df,           \* page script: the asset's DataFrame
    bundle,       \* page script: the asset's bundle
    steps,        \* page script: per asset, the steps run for it, in order
    shown,        \* page script: per asset, the elements put on the page, in order
    refresh_sec,  \* sidebar: auto-refresh seconds
    show_tables   \* sidebar: show raw data tables

engineVars == <<series, result, previous, calls>>
pageVars == <<i, pc, df, bundle, steps, shown, refresh_sec, show_tables>>
vars == <<series, result, previous, calls,
          i, pc, df, bundle, steps, shown, refresh_sec, show_tables>>

----------------------------------------------------------------------------
(* Values *)

F(x) == <<"float", x>>
NaN == <<"nan">>
None == <<"none">>

\* pd.notna(x)
notna(x) == x # NaN /\ x # None

\* variant: <= in place of <
LtOrEqual(x, y) == notna(x) /\ notna(y) /\ x[2] <= y[2]

\* variant: a missing value compared as 0, as after fillna(0)
GtNanAsZero(x, y) ==
    LET v(z) == IF notna(z) THEN z[2] ELSE 0 IN v(x) > v(y)

\* x < y and x > y on numpy floats: False as soon as one side is NaN
Lt(x, y) == notna(x) /\ notna(y) /\ x[2] < y[2]
Gt(x, y) == notna(x) /\ notna(y) /\ x[2] > y[2]

\* float(x) of a numpy float: the same number; float(nan) is nan
Float(x) == IF x = NaN THEN NaN ELSE F(x[2])

\* the RSI thresholds of buy_ok and sell_ok
RsiBuyBelow == 40
RsiSellAbove == 60

----------------------------------------------------------------------------
(* Bounds and input sets *)

MaxLen == 3      \* longest series drawn
MaxCalls == 2    \* calls of confirmation_bundle made on one series

RsiValues == {NaN, F(35), F(40), F(60), F(65)}
MacdValues == {NaN, F(-1), F(0), F(1)}
SignalValues == {NaN, F(0)}
HistValues == {NaN, F(1)}
CloseValues == {NaN, F(90), F(95), F(100)}
PsarValues == {NaN, F(95)}

\* a row of the table without its time
Rows(rsis, hists, closes, psars) ==
    [close : closes, rsi : rsis, macd : MacdValues,
     macd_signal : SignalValues, macd_hist : hists, psar : psars]

\* the last row takes every combination of values
LastRows == Rows(RsiValues, HistValues, CloseValues, PsarValues)

\* an earlier row is either a warm-up row (no indicator computed yet) or a
\* row with rsi, hist and psar present and every MACD combination
WarmUpRow ==
    [close |-> F(90), rsi |-> NaN, macd |-> NaN, macd_signal |-> NaN,
     macd_hist |-> NaN, psar |-> NaN]
EarlierRows == {WarmUpRow} \cup Rows({F(65)}, {F(1)}, {F(100)}, {F(95)})

\* the row r stamped with the time t
Stamp(r, t) ==
    [time |-> t, close |-> r.close, rsi |-> r.rsi, macd |-> r.macd,
     macd_signal |-> r.macd_signal, macd_hist |-> r.macd_hist, psar |-> r.psar]

\* a table of n rows, times ascending
Table(earlier, last) ==
    [k \in 1..(Len(earlier) + 1) |->
        IF k <= Len(earlier) THEN Stamp(earlier[k], k) ELSE Stamp(last, k)]

----------------------------------------------------------------------------
(* confirmation_bundle *)

\* variant: a single row counts as empty too
DfEmptyBelowTwo(table) == Len(table) < 2

\* df.empty
DfEmpty(table) == Len(table) = 0

\* variant: the row before the last one, when there is one
LatestOffByOne(table) ==
    IF Len(table) > 1 THEN table[Len(table) - 1] ELSE table[Len(table)]

\* df.iloc[-1]
Latest(table) == table[Len(table)]

\* df.iloc[-2] if len(df) > 1 else latest
Prev(table) == IF Len(table) > 1 THEN table[Len(table) - 1] ELSE Latest(table)

\* variant: the condition on prev left out
macd_cross_up_latest_only(prev, latest) == Gt(latest.macd, latest.macd_signal)

macd_cross_up(prev, latest) ==
    Lt(prev.macd, prev.macd_signal) /\ Gt(latest.macd, latest.macd_signal)

\* variant: the condition on latest left out
macd_cross_down_prev_only(prev, latest) == Gt(prev.macd, prev.macd_signal)

macd_cross_down(prev, latest) ==
    Gt(prev.macd, prev.macd_signal) /\ Lt(latest.macd, latest.macd_signal)

price_above_psar(latest) == Gt(latest.close, latest.psar)

price_below_psar(latest) == Lt(latest.close, latest.psar)

buy_ok(prev, latest) ==
    /\ (notna(latest.rsi) /\ Lt(latest.rsi, F(RsiBuyBelow)))
    /\ macd_cross_up(prev, latest)
    /\ price_above_psar(latest)

\* variant: the buy line copied without being edited
sell_ok_copy_of_buy(prev, latest) == buy_ok(prev, latest)

sell_ok(prev, latest) ==
    /\ (notna(latest.rsi) /\ Gt(latest.rsi, F(RsiSellAbove)))
    /\ macd_cross_down(prev, latest)
    /\ price_below_psar(latest)

\* float(x) if pd.notna(x) else None
Echo(x) == IF notna(x) THEN Float(x) ELSE None

\* the empty dict
EmptyBundle == << >>

Bundle(prev, latest) ==
    [price |-> Float(latest.close),
     time |-> latest.time,
     rsi |-> Echo(latest.rsi),
     macd |-> Echo(latest.macd),
     macd_signal |-> Echo(latest.macd_signal),
     macd_hist |-> Echo(latest.macd_hist),
     psar |-> Echo(latest.psar),
     buy_ok |-> buy_ok(prev, latest),
     sell_ok |-> sell_ok(prev, latest)]

confirmation_bundle(table) ==
    IF DfEmpty(table) THEN EmptyBundle ELSE Bundle(Prev(table), Latest(table))

----------------------------------------------------------------------------
(* Engine harness: a series is drawn, confirmation_bundle is called on it *)

NotCalled == "not called"

\* the page script is not running
PageIdle ==
    /\ i = 0
    /\ pc = "idle"
    /\ df = << >>
    /\ bundle = NotCalled
    /\ steps = << >>
    /\ shown = << >>
    /\ refresh_sec = 0
    /\ show_tables = FALSE

Init ==
    /\ \E n \in 0..MaxLen :
          IF n = 0 THEN series = << >>
          ELSE \E earlier \in [1..(n - 1) -> EarlierRows], last \in LastRows :
                  series = Table(earlier, last)
    /\ result = NotCalled
    /\ previous = NotCalled
    /\ calls = 0
    /\ PageIdle

\* variant: the call consumes the last row of the table it is given
EvaluateConsuming ==
    /\ calls < MaxCalls
    /\ result' = confirmation_bundle(series)
    /\ previous' = result
    /\ calls' = calls + 1
    /\ series' = SubSeq(series, 1, Len(series) - 1)
    /\ UNCHANGED pageVars

Evaluate ==
    /\ calls < MaxCalls
    /\ result' = confirmation_bundle(series)
    /\ previous' = result
    /\ calls' = calls + 1
    /\ UNCHANGED series
    /\ UNCHANGED pageVars

Next == Evaluate

Spec == Init /\ [][Next]_vars

----------------------------------------------------------------------------
(* The page script: one run over ASSETS, then the auto-refresh *)

NumAssets == 4       \* len(ASSETS)
MaxPrices == 2       \* longest price list a fetch returns
RefreshChoice == 1   \* a value of the slider above 0

PriceValues == {F(90), F(100)}

\* what ta.rsi and ta.macd (external library) give for a row: rsi missing or
\* not; macd, signal and histogram all missing, or macd alone present, or
\* the three present with histogram = macd - signal
TaRsiValues == {NaN, F(35), F(65)}
TaMacdValues ==
    {[macd |-> NaN, signal |-> NaN, hist |-> NaN]}
    \cup {[macd |-> F(m), signal |-> NaN, hist |-> NaN] : m \in {-1, 1}}
    \cup {[macd |-> F(m), signal |-> F(0), hist |-> F(m)] : m \in {-1, 1}}

AllSteps == <<"fetch", "compute", "evaluate", "render">>

\* pd.DataFrame(prices, columns=["time", "close"]), time converted
PriceFrame(prices) ==
    [k \in 1..Len(prices) |-> [time |-> k, close |-> prices[k]]]

\* df["close"].shift(1) at row k
ShiftedClose(table, k) == IF k = 1 THEN NaN ELSE table[k - 1].close

compute_indicators(table, ta_rsi, ta_macd) ==
    IF DfEmpty(table) THEN table
    ELSE [k \in 1..Len(table) |->
            [time |-> table[k].time,
             close |-> table[k].close,
             rsi |-> ta_rsi[k],
             macd |-> ta_macd[k].macd,
             macd_signal |-> ta_macd[k].signal,
             macd_hist |-> ta_macd[k].hist,
             psar |-> ShiftedClose(table, k)]]

\* not bundle
NotBundle(b) == DOMAIN b = {}

\* a format spec such as :.2f applied to None raises TypeError
FormatRaises(x) == x = None

\* the f-string of the indicator line raises
IndicatorLineRaises(b) ==
    \/ FormatRaises(b.rsi)
    \/ FormatRaises(b.macd)
    \/ FormatRaises(b.macd_signal)
    \/ FormatRaises(b.macd_hist)

BuyBadge(b) == IF b.buy_ok THEN "BUY conditions met" ELSE "Buy not confirmed"
SellBadge(b) == IF b.sell_ok THEN "SELL conditions met" ELSE "Sell not confirmed"

EngineIdle ==
    /\ series = << >>
    /\ result = NotCalled
    /\ previous = NotCalled
    /\ calls = 0

\* the state a run of the script starts in
RunStart ==
    /\ i = 1
    /\ pc = "fetch"
    /\ df = << >>
    /\ bundle = NotCalled
    /\ steps = [a \in 1..NumAssets |-> << >>]
    /\ shown = [a \in 1..NumAssets |-> << >>]

PageInit ==
    /\ EngineIdle
    /\ RunStart
    /\ refresh_sec \in {0, RefreshChoice}
    /\ show_tables \in BOOLEAN

Did(step) == steps' = [steps EXCEPT ![i] = Append(@, step)]
Show(elements) == shown' = [shown EXCEPT ![i] = @ \o elements]

\* the loop goes on to the next asset, or ends; df and bundle are rebound by
\* the next iteration before anything reads them, and nothing after the loop
\* reads them, so the model drops their values here
LoopOn ==
    /\ IF i < NumAssets
       THEN i' = i + 1 /\ pc' = "fetch"
       ELSE i' = i /\ pc' = "refresh"
    /\ df' = << >>
    /\ bundle' = NotCalled

\* fetch_klines: the request or its decoding raises
FetchFails ==
    /\ pc = "fetch"
    /\ Did("fetch")
    /\ Show(<<"header", "error">>)
    /\ df' = << >>
    /\ pc' = "compute"
    /\ UNCHANGED <<i, bundle, refresh_sec, show_tables>>
    /\ UNCHANGED engineVars

\* fetch_klines: the request returns a list of prices
FetchReturns ==
    /\ pc = "fetch"
    /\ \E n \in 0..MaxPrices : \E prices \in [1..n -> PriceValues] :
          df' = PriceFrame(prices)
    /\ Did("fetch")
    /\ Show(<<"header">>)
    /\ pc' = "compute"
    /\ UNCHANGED <<i, bundle, refresh_sec, show_tables>>
    /\ UNCHANGED engineVars

ComputeIndicators ==
    /\ pc = "compute"
    /\ \E ta_rsi \in [1..Len(df) -> TaRsiValues],
          ta_macd \in [1..Len(df) -> TaMacdValues] :
          df' = compute_indicators(df, ta_rsi, ta_macd)
    /\ Did("compute")
    /\ pc' = "evaluate"
    /\ UNCHANGED <<i, bundle, shown, refresh_sec, show_tables>>
    /\ UNCHANGED engineVars

EvaluateAsset ==
    /\ pc = "evaluate"
    /\ bundle' = confirmation_bundle(df)
    /\ Did("evaluate")
    /\ pc' = "render"
    /\ UNCHANGED <<i, df, shown, refresh_sec, show_tables>>
    /\ UNCHANGED engineVars

\* if not bundle: warning, continue
RenderNoData ==
    /\ pc = "render"
    /\ NotBundle(bundle)
    /\ Did("render")
    /\ Show(<<"warning">>)
    /\ LoopOn
    /\ UNCHANGED <<refresh_sec, show_tables>>
    /\ UNCHANGED engineVars

\* metric, indicator line, badges, chart, table
RenderVerdict ==
    /\ pc = "render"
    /\ ~NotBundle(bundle)
    /\ ~IndicatorLineRaises(bundle)
    /\ Did("render")
    /\ Show(<<"metric", "indicators", BuyBadge(bundle), SellBadge(bundle), "chart">>
            \o (IF show_tables THEN <<"table">> ELSE << >>))
    /\ LoopOn
    /\ UNCHANGED <<refresh_sec, show_tables>>
    /\ UNCHANGED engineVars

\* metric, then the indicator line raises TypeError and the run stops
RenderRaises ==
    /\ pc = "render"
    /\ ~NotBundle(bundle)
    /\ IndicatorLineRaises(bundle)
    /\ Did("render")
    /\ Show(<<"metric">>)
    /\ pc' = "crashed"
    /\ UNCHANGED <<i, df, bundle, refresh_sec, show_tables>>
    /\ UNCHANGED engineVars

\* refresh_sec > 0: caption, sleep, st.experimental_rerun()
Rerun ==
    /\ pc = "refresh"
    /\ refresh_sec > 0
    /\ i' = 1
    /\ pc' = "fetch"
    /\ df' = << >>
    /\ bundle' = NotCalled
    /\ steps' = [a \in 1..NumAssets |-> << >>]
    /\ shown' = [a \in 1..NumAssets |-> << >>]
    /\ UNCHANGED <<refresh_sec, show_tables>>
    /\ UNCHANGED engineVars

\* refresh_sec = 0: the script ends
Finish ==
    /\ pc = "refresh"
    /\ ~(refresh_sec > 0)
    /\ pc' = "done"
    /\ UNCHANGED <<i, df, bundle, steps, shown, refresh_sec, show_tables>>
    /\ UNCHANGED engineVars

PageNext ==
    \/ FetchFails
    \/ FetchReturns
    \/ ComputeIndicators
    \/ EvaluateAsset
    \/ RenderNoData
    \/ RenderVerdict
    \/ RenderRaises
    \/ Rerun
    \/ Finish

SpecPage == PageInit /\ [][PageNext]_vars

----------------------------------------------------------------------------
(* Properties of confirmation_bundle, stated on the harness *)

Present(x) == x[1] = "float"
Val(x) == x[2]

BundleKeys ==
    {"price", "time", "rsi", "macd", "macd_signal", "macd_hist", "psar",
     "buy_ok", "sell_ok"}
EchoedFields == {"rsi", "macd", "macd_signal", "macd_hist", "psar"}

Returned == calls >= 1
IsEmptyResult(b) == DOMAIN b = {}
IsVerdict(b) == DOMAIN b = BundleKeys

LastBar == series[Len(series)]
PrevBar == series[IF Len(series) > 1 THEN Len(series) - 1 ELSE Len(series)]

\* the values of Scenario A and Scenario B of the specification
ScenarioA ==
    /\ Len(series) >= 2
    /\ PrevBar.macd = F(-1) /\ PrevBar.macd_signal = F(0)
    /\ LastBar.macd = F(1) /\ LastBar.macd_signal = F(0)
    /\ LastBar.rsi = F(35) /\ LastBar.close = F(100) /\ LastBar.psar = F(95)
ScenarioB ==
    /\ Len(series) >= 2
    /\ PrevBar.macd = F(1) /\ PrevBar.macd_signal = F(0)
    /\ LastBar.macd = F(-1) /\ LastBar.macd_signal = F(0)
    /\ LastBar.rsi = F(65) /\ LastBar.close = F(90) /\ LastBar.psar = F(95)

\* C1: whatever the series, the returned Verdict never has buy_ok and
\* sell_ok both true.
C1_NeverBothConfirmed ==
    (Returned /\ IsVerdict(result)) => ~(result.buy_ok /\ result.sell_ok)

C1_Witness ==
    Returned /\ ScenarioA /\ IsVerdict(result)
        /\ result.buy_ok /\ ~result.sell_ok

\* C2: the result is Empty exactly when the series has no bar; a series with
\* at least one bar yields a Verdict carrying both booleans, whatever is
\* absent.
C2_EmptyIffNoBars ==
    Returned =>
        /\ IsEmptyResult(result) <=> Len(series) = 0
        /\ Len(series) > 0 =>
              /\ IsVerdict(result)
              /\ result.buy_ok \in BOOLEAN
              /\ result.sell_ok \in BOOLEAN

C2_Witness == Returned /\ Len(series) = 0 /\ IsEmptyResult(result)

\* C3: on a series of one bar both confirmations are false, whatever the
\* bar's values.
C3_SingleBarNeverConfirms ==
    (Returned /\ Len(series) = 1 /\ IsVerdict(result)) =>
        (~result.buy_ok /\ ~result.sell_ok)

C3_Witness ==
    /\ Returned /\ Len(series) = 1 /\ IsVerdict(result)
    /\ LastBar.rsi = F(35) /\ LastBar.macd = F(1) /\ LastBar.macd_signal = F(0)
    /\ LastBar.close = F(100) /\ LastBar.psar = F(95)
    /\ ~result.buy_ok

\* C4: an absent latest rsi makes both confirmations false; an absent macd or
\* macd_signal on prev or latest, or an absent latest psar, makes the
\* confirmations that need it false; a Verdict is returned all the same.
C4_AbsentNeverConfirms ==
    (Returned /\ Len(series) > 0) =>
        /\ IsVerdict(result)
        /\ LastBar.rsi = NaN => (~result.buy_ok /\ ~result.sell_ok)
        /\ NaN \in {PrevBar.macd, PrevBar.macd_signal, LastBar.macd,
                    LastBar.macd_signal, LastBar.psar}
              => (~result.buy_ok /\ ~result.sell_ok)

C4_Witness ==
    /\ Returned /\ Len(series) >= 2 /\ IsVerdict(result)
    /\ PrevBar.macd = F(-1) /\ PrevBar.macd_signal = F(0)
    /\ LastBar.macd = F(1) /\ LastBar.macd_signal = F(0)
    /\ LastBar.rsi = F(35) /\ LastBar.close = F(100) /\ LastBar.psar = NaN
    /\ ~result.buy_ok

\* C5: with two bars or more, buy_ok is true exactly when latest.rsi < 40,
\* prev.macd < prev.macd_signal, latest.macd > latest.macd_signal and
\* latest.close > latest.psar, all on present values and all strict.
C5_BuyExactly ==
    (Returned /\ Len(series) >= 2 /\ IsVerdict(result)) =>
        (result.buy_ok <=>
            /\ Present(LastBar.rsi) /\ Val(LastBar.rsi) < 40
            /\ Present(PrevBar.macd) /\ Present(PrevBar.macd_signal)
            /\ Val(PrevBar.macd) < Val(PrevBar.macd_signal)
            /\ Present(LastBar.macd) /\ Present(LastBar.macd_signal)
            /\ Val(LastBar.macd) > Val(LastBar.macd_signal)
            /\ Present(LastBar.close) /\ Present(LastBar.psar)
            /\ Val(LastBar.close) > Val(LastBar.psar))

C5_Witness ==
    /\ Returned /\ Len(series) = 3 /\ IsVerdict(result)
    /\ ScenarioA /\ result.buy_ok

\* C6: with two bars or more, sell_ok is true exactly when latest.rsi > 60,
\* prev.macd > prev.macd_signal, latest.macd < latest.macd_signal and
\* latest.close < latest.psar, all on present values and all strict.
C6_SellExactly ==
    (Returned /\ Len(series) >= 2 /\ IsVerdict(result)) =>
        (result.sell_ok <=>
            /\ Present(LastBar.rsi) /\ Val(LastBar.rsi) > 60
            /\ Present(PrevBar.macd) /\ Present(PrevBar.macd_signal)
            /\ Val(PrevBar.macd) > Val(PrevBar.macd_signal)
            /\ Present(LastBar.macd) /\ Present(LastBar.macd_signal)
            /\ Val(LastBar.macd) < Val(LastBar.macd_signal)
            /\ Present(LastBar.close) /\ Present(LastBar.psar)
            /\ Val(LastBar.close) < Val(LastBar.psar))

C6_Witness ==
    /\ Returned /\ IsVerdict(result)
    /\ ScenarioB /\ result.sell_ok /\ ~result.buy_ok

C8_EchoesLatest ==
    (Returned /\ Len(series) > 0 /\ IsVerdict(result)) =>
        /\ result.time = LastBar.time
        /\ result.price = LastBar.close
        /\ \A f \in EchoedFields :
              /\ LastBar[f] # NaN => result[f] = LastBar[f]
              /\ result[f] = None <=> LastBar[f] = NaN

C8_Witness ==
    /\ Returned /\ Len(series) >= 2 /\ IsVerdict(result)
    /\ PrevBar.close = F(100) /\ LastBar.close = F(90)
    /\ PrevBar.rsi = F(65) /\ LastBar.rsi = NaN
    /\ LastBar.macd = F(1) /\ LastBar.psar = F(95)
    /\ result.rsi = None /\ result.macd = F(1) /\ result.price = F(90)

----------------------------------------------------------------------------
(* Properties of the page script *)

Has(seq, x) == \E k \in 1..Len(seq) : seq[k] = x
IsPrefix(seq, whole) ==
    Len(seq) <= Len(whole) /\ \A k \in 1..Len(seq) : seq[k] = whole[k]

HasBuyBadge(a) ==
    Has(shown[a], "BUY conditions met") \/ Has(shown[a], "Buy not confirmed")
HasSellBadge(a) ==
    Has(shown[a], "SELL conditions met") \/ Has(shown[a], "Sell not confirmed")

\* the asset's bundle was a Verdict and its render step has run
RenderedVerdict(a) == Has(steps[a], "render") /\ ~Has(shown[a], "warning")

\* the loop is over, one way or the other
RunOver == pc \in {"refresh", "done", "crashed"}

\* C9: the render step of every Verdict, absent indicators included, shows
\* the price, the indicator line and both badges, and does not fail.
C9_RenderShowsEveryVerdict ==
    /\ pc # "crashed"
    /\ \A a \in 1..NumAssets :
          RenderedVerdict(a) =>
              /\ Has(shown[a], "metric")
              /\ Has(shown[a], "indicators")
              /\ HasBuyBadge(a)
              /\ HasSellBadge(a)

\* C10: every asset is processed once, in list order, each by fetch, compute,
\* evaluate, render; a failed fetch ends in the warning with no badge; the
\* loop always runs to its end and the auto-refresh step is reached.
C10_EveryAssetProcessedOnce ==
    /\ \A a \in 1..NumAssets : IsPrefix(steps[a], AllSteps)
    /\ \A a, b \in 1..NumAssets :
          (a < b /\ steps[b] # << >>) => steps[a] = AllSteps
    /\ \A a \in 1..NumAssets :
          (Has(shown[a], "error") /\ Has(steps[a], "render")) =>
              /\ Has(shown[a], "warning")
              /\ ~HasBuyBadge(a) /\ ~HasSellBadge(a)
    /\ RunOver =>
          /\ pc \in {"refresh", "done"}
          /\ \A a \in 1..NumAssets : steps[a] = AllSteps

====
